---- MODULE Spec2Model ----
(***************************************************************************)
(* Model of the pylons_sdk test harness:                                   *)
(*   - package evtesting (the test context wrapper T), and                 *)
(*   - package inttest, cmd/test_utils/basic.go (RunPylonsd and its        *)
(*     argument rewriting, WaitForBlockInterval).                          *)
(*                                                                         *)
(* Four groups of variables, one per part of the program; every            *)
(* specification below drives one group and leaves the others idle.        *)
(***************************************************************************)
EXTENDS Integers, Sequences, FiniteSets, TLC

VARIABLES
    \* ---- evtesting ----
    ctxs,       \* the T values the test holds: a context and the last one derived from it
    listeners,  \* the package-level event table: the registered event names
    out,        \* what the last wrapper call did, in order (callbacks, records, halt)
    op,         \* the last wrapper call: method, receiver, result, caller stack
    halted,     \* the test (native) or the process (standalone) has been halted
    \* ---- WaitForBlockInterval ----
    wPc, wInterval, wCurrent, wCounter, wQueries, wSeen, wFailed, wResult,
    \* ---- RunPylonsd, concurrent invocations ----
    pc, cliMux, lastErr,
    \* ---- RunPylonsd, argument rewriting ----
    aStage, aOrig, aNodes, aArgs, aPassed

tvars == <<ctxs, listeners, out, op, halted>>
wvars == <<wPc, wInterval, wCurrent, wCounter, wQueries, wSeen, wFailed, wResult>>
mvars == <<pc, cliMux, lastErr>>
avars == <<aStage, aOrig, aNodes, aArgs, aPassed>>
vars == <<tvars, wvars, mvars, avars>>

----------------------------------------------------------------------------
(* Bounds of the model *)

\* native test handles in use at once
MaxHandle == 3

Min(a, b) == IF a < b THEN a ELSE b

----------------------------------------------------------------------------
(*                         package evtesting                               *)

\* logrus levels named by the wrapper (logrus: Panic=0 Fatal=1 Error=2 Warn=3
\* Info=4 Debug=5 Trace=6).
WarnLevel == 3
InfoLevel == 4
DebugLevel == 5
TraceLevel == 6
Levels == 0..TraceLevel

Keys == {"k1"}
Vals == {"a", "b"}
\* log.Fields values a caller can hand to WithFields
FieldSets == UNION {[K -> Vals] : K \in SUBSET Keys}
NoFields == [k \in {} |-> "a"]

\* type T struct { origin; useLogPkg; fields; logLevel }
T == [origin : 1..MaxHandle, useLogPkg : BOOLEAN, fields : FieldSets,
      logLevel : Levels]

\* a native handle is a positive number; NilHandle is the nil *testing.T
NilHandle == 0

\* NewT(origin); fresh is the handle of the testing.T{} the function allocates
\* when origin is nil.
NewT(origin, fresh) ==
    IF origin = NilHandle
    THEN [origin |-> fresh, useLogPkg |-> TRUE, fields |-> NoFields,
          logLevel |-> TraceLevel]
    ELSE [origin |-> origin, useLogPkg |-> FALSE, fields |-> NoFields,
          logLevel |-> DebugLevel]

WithFieldsMerged(t, fields) ==
    [origin |-> t.origin, useLogPkg |-> t.useLogPkg,
     fields |-> [k \in (DOMAIN t.fields) \cup (DOMAIN fields) |->
                    IF k \in DOMAIN fields THEN fields[k] ELSE t.fields[k]],
     logLevel |-> t.logLevel]

\* func (t *T) WithFields(fields Fields) *T
WithFields(t, fields) ==
    [origin |-> t.origin, useLogPkg |-> t.useLogPkg, fields |-> fields,
     logLevel |-> t.logLevel]

RunDropsLevel(t, subt) ==
    [origin |-> subt, fields |-> t.fields, useLogPkg |-> t.useLogPkg,
     logLevel |-> 0]

\* func (t *T) Run: the T handed to the sub-test body, subt its native handle
\* (whether the native Run of a handle reaches the body is the testing
\* package's business; this is the context the closure builds when it does)
Run(t, subt) ==
    [origin |-> subt, fields |-> t.fields, useLogPkg |-> t.useLogPkg,
     logLevel |-> t.logLevel]

(* What a call does, as a sequence of events. *)
Ev(kind, sink, role, level, fields, line, msg) ==
    [kind |-> kind, sink |-> sink, role |-> role, level |-> level,
     fields |-> fields, line |-> line, msg |-> msg]

Callback(event) == Ev("callback", "listener", "", "", NoFields, <<>>, event)
\* t.origin.Log(line) / t.origin.Log(args...)
NativeLog(role, line, msg) == Ev("record", "native", role, "log", NoFields, line, msg)
\* require.True(t.origin, false): Errorf then FailNow
NativeErrorf(msg) == Ev("record", "native", "message", "error", NoFields, <<>>, msg)
\* log.WithFields(fields).<Level>(msg)
Logrus(role, level, fields, msg) == Ev("record", "logrus", role, level, fields, <<>>, msg)
\* testing FailNow (native) or logrus' os.Exit (standalone)
Halt(sink) == Ev("halt", sink, "", "", NoFields, <<>>, "")

\* all a \o b
Cat(A, B) == {a \o b : a \in A, b \in B}

\* func (t *T) DispatchEvent(event string)
DispatchEvent(event) ==
    IF event \in listeners THEN <<Callback(event)>> ELSE <<>>

(* Call stacks: sequences of frames, innermost first. *)
Frame(function, file) == [function |-> function, file |-> file]
WrapperFile == "evtesting/testing.go"
W(method) == Frame(method, WrapperFile)
UnknownFrame == Frame("unknown", "")

\* func getFrame(skipFrames int); stack is the stack at the call of getFrame
getFrame(skipFrames, stack) ==
    LET targetFrameIndex == skipFrames + 2
        callers == <<Frame("runtime.Callers", "runtime/extern.go"),
                     W("evtesting.getFrame")>> \o stack
        n == Min(Len(callers), targetFrameIndex + 2)
    IN  IF n > 0 /\ targetFrameIndex < n
        THEN callers[targetFrameIndex + 1]
        ELSE UnknownFrame

Orderings(S) ==
    {o \in [1..Cardinality(S) -> S] : \A i, j \in DOMAIN o : i # j => o[i] # o[j]}

\* func (t *T) FormatFields() string: " key=value" per field, in the order the
\* map iteration yields (any order)
FormatFields(t) ==
    {[i \in DOMAIN o |-> <<o[i], t.fields[o[i]]>>] : o \in Orderings(DOMAIN t.fields)}

CallerFields(frame) ==
    [k \in {"file_line", "func"} |->
        IF k = "file_line" THEN frame.file ELSE frame.function]

\* func (t *T) printCallerLine(); stack is the stack at the call of printCallerLine
printCallerLine(t, stack) ==
    LET frame == getFrame(2, <<W("evtesting.(*T).printCallerLine")>> \o stack)
    IN  IF t.useLogPkg
        THEN {<<Logrus("caller", "trace", CallerFields(frame), frame.function)>>}
        ELSE {<<NativeLog("caller", l, "")>> :
                l \in FormatFields(WithFields(t, CallerFields(frame)))}

FatalBody(t, stack, msg) ==
    IF t.useLogPkg
    THEN {<<Logrus("message", "fatal", t.fields, msg), Halt("logrus")>>}
    ELSE {<<NativeLog("fields", l, ""), NativeLog("message", <<>>, msg),
            Halt("native")>> : l \in FormatFields(t)}

FatalLogsFirst(t, cs, msg) ==
    LET stack == <<W("evtesting.(*T).Fatal")>> \o cs
    IN  Cat(Cat(printCallerLine(t, stack), {DispatchEvent("FAIL")}),
            FatalBody(t, stack, msg))

\* func (t *T) Fatal(args ...interface{}); cs is the caller's stack
Fatal(t, cs, msg) ==
    LET stack == <<W("evtesting.(*T).Fatal")>> \o cs
    IN  Cat(Cat({DispatchEvent("FAIL")}, printCallerLine(t, stack)),
            FatalBody(t, stack, msg))

\* func (t *T) Fatalf(format string, args ...interface{})
Fatalf(t, cs, msg) ==
    LET stack == <<W("evtesting.(*T).Fatalf")>> \o cs
    IN  Cat(Cat({DispatchEvent("FAIL")}, printCallerLine(t, stack)),
            FatalBody(t, stack, msg))

\* func (t *T) MustTrue(value bool)
MustTrue(t, cs, value) ==
    LET stack == <<W("evtesting.(*T).MustTrue")>> \o cs
        first == IF ~value THEN DispatchEvent("FAIL") ELSE <<>>
    IN  IF t.useLogPkg
        THEN IF ~value
             THEN Cat(Cat({first}, printCallerLine(t, stack)),
                      {<<Logrus("message", "fatal", NoFields,
                                "MustTrue validation failure"),
                         Halt("logrus")>>})
             ELSE {first}
        ELSE IF ~value
             THEN {first \o <<NativeErrorf("Should be true"), Halt("native")>>}
             ELSE {first}

\* func (t *T) MustNil(err error); err = "nil" is the nil error
MustNil(t, cs, err) ==
    LET stack == <<W("evtesting.(*T).MustNil")>> \o cs
    IN  IF err # "nil"
        THEN IF t.useLogPkg
             THEN Cat(Cat({DispatchEvent("FAIL")}, printCallerLine(t, stack)),
                      Fatal(WithFields(t, [k \in {"error"} |-> err]), stack,
                            "MustNil validation failure"))
             ELSE {DispatchEvent("FAIL") \o
                   <<NativeErrorf("Should be true"), Halt("native")>>}
        ELSE {<<>>}

LogBody(t, level, msg) ==
    IF t.useLogPkg
    THEN {<<Logrus("message", level, t.fields, msg)>>}
    ELSE {<<NativeLog("fields", l, ""), NativeLog("message", <<>>, msg)>> :
            l \in FormatFields(t)}

\* func (t *T) Log(args ...interface{})
Log(t, cs, msg) == LogBody(t, "info", msg)

\* func (t *T) Info(args ...interface{})
Info(t, cs, msg) ==
    IF t.logLevel < InfoLevel THEN {<<>>} ELSE LogBody(t, "info", msg)

\* func (t *T) Warn(args ...interface{})
Warn(t, cs, msg) ==
    IF t.logLevel < WarnLevel THEN {<<>>}
    ELSE Cat(printCallerLine(t, <<W("evtesting.(*T).Warn")>> \o cs),
             LogBody(t, "warn", msg))

\* func (t *T) Trace(args ...interface{})
Trace(t, cs, msg) ==
    IF t.logLevel < TraceLevel THEN {<<>>}
    ELSE Cat(printCallerLine(t, <<W("evtesting.(*T).Trace")>> \o cs),
             LogBody(t, "trace", msg))

\* func (t *T) Debug(args ...interface{})
Debug(t, cs, msg) ==
    IF t.logLevel < DebugLevel THEN {<<>>}
    ELSE Cat(printCallerLine(t, <<W("evtesting.(*T).Debug")>> \o cs),
             LogBody(t, "debug", msg))

(* The wrapper's operations as actions on the contexts the test holds. *)

RuntimeFile == "runtime/proc.go"
TRunner == Frame("testing.tRunner", "testing/testing.go")
GoExit == Frame("runtime.goexit", RuntimeFile)
\* where a test author can call the wrapper from: a test function, or the
\* body of a sub-test started with Run
CallerStacks ==
    { <<Frame("inttest.TestCase", "case_test.go"), TRunner, GoExit>>,
      <<Frame("inttest.TestCase.func1", "case_test.go"),
        W("evtesting.(*T).Run.func1"), TRunner, GoExit>> }

Errs == {"nil", "exit status 1"}

\* a call: the method, the receiver (an index of ctxs before the call), the
\* returned context (an index of ctxs after it), the fields handed to
\* WithFields, whether the call is on a failure path, the caller's stack
Op(name, recv, ret, arg, fail, stack) ==
    [name |-> name, recv |-> recv, ret |-> ret, arg |-> arg, fail |-> fail,
     stack |-> stack]
NoOp == Op("none", 0, 0, NoFields, FALSE, <<>>)

Halts(o) == \E i \in DOMAIN o : o[i].kind = "halt"

Handles == 1..MaxHandle
\* a native handle no held context uses
FreshHandles == Handles \ {ctxs[i].origin : i \in DOMAIN ctxs}

\* var listeners = make(map[string]func()); filled at process start by the
\* packages that need cross-test signalling
ListenersInit == listeners \in SUBSET {"FAIL"}

TIdle ==
    /\ ctxs = <<>>
    /\ listeners = {}
    /\ out = <<>>
    /\ op = NoOp
    /\ halted = FALSE

TInit ==
    /\ ctxs = <<>>
    /\ ListenersInit
    /\ out = <<>>
    /\ op = NoOp
    /\ halted = FALSE

\* NewT(origin): the test starts over with the new context
CallNewT(origin, fresh) ==
    /\ ~halted
    /\ ctxs' = <<NewT(origin, fresh)>>
    /\ op' = Op("NewT", 0, 1, NoFields, FALSE, <<>>)
    /\ out' = <<>>
    /\ UNCHANGED <<listeners, halted, wvars, mvars, avars>>

CallWithFieldsInPlace(i, fields) ==
    /\ ~halted
    /\ ctxs' = <<[ctxs[i] EXCEPT !.fields = fields], WithFields(ctxs[i], fields)>>
    /\ op' = Op("WithFields", i, 2, fields, FALSE, <<>>)
    /\ out' = <<>>
    /\ UNCHANGED <<listeners, halted, wvars, mvars, avars>>

\* t.WithFields(fields) on the i-th held context; the test goes on with the
\* receiver (as it is after the call) and the returned T
CallWithFields(i, fields) ==
    /\ ~halted
    /\ ctxs' = <<ctxs[i], WithFields(ctxs[i], fields)>>
    /\ op' = Op("WithFields", i, 2, fields, FALSE, <<>>)
    /\ out' = <<>>
    /\ UNCHANGED <<listeners, halted, wvars, mvars, avars>>

\* t.Run(name, f) on the i-th held context; f runs with the new T, bound to
\* the sub-test's own native handle subt
CallRun(i, subt) ==
    /\ ~halted
    /\ ctxs' = <<ctxs[i], Run(ctxs[i], subt)>>
    /\ op' = Op("Run", i, 2, NoFields, FALSE, <<>>)
    /\ out' = <<>>
    /\ UNCHANGED <<listeners, halted, wvars, mvars, avars>>

\* a call of a logging, fatal or assertion method: outs is what it can do
Emit(name, i, fail, cs, outs) ==
    /\ ~halted
    /\ \E o \in outs :
         /\ out' = o
         /\ halted' = Halts(o)
    /\ op' = Op(name, i, 0, NoFields, fail, cs)
    /\ UNCHANGED <<ctxs, listeners, wvars, mvars, avars>>

CallFatal(i, cs) == Emit("Fatal", i, TRUE, cs, Fatal(ctxs[i], cs, "msg"))
CallFatalf(i, cs) == Emit("Fatalf", i, TRUE, cs, Fatalf(ctxs[i], cs, "msg"))
CallMustTrue(i, cs, value) ==
    Emit("MustTrue", i, ~value, cs, MustTrue(ctxs[i], cs, value))
CallMustNil(i, cs, err) ==
    Emit("MustNil", i, err # "nil", cs, MustNil(ctxs[i], cs, err))
CallLog(i, cs) == Emit("Log", i, FALSE, cs, Log(ctxs[i], cs, "msg"))
CallInfo(i, cs) == Emit("Info", i, FALSE, cs, Info(ctxs[i], cs, "msg"))
CallWarn(i, cs) == Emit("Warn", i, FALSE, cs, Warn(ctxs[i], cs, "msg"))
CallTrace(i, cs) == Emit("Trace", i, FALSE, cs, Trace(ctxs[i], cs, "msg"))
CallDebug(i, cs) == Emit("Debug", i, FALSE, cs, Debug(ctxs[i], cs, "msg"))

----------------------------------------------------------------------------
(*                 package inttest: WaitForBlockInterval                   *)

\* for counter < 300*interval
PollsPerBlock == 300
\* the intervals a caller asks for, and the block heights the node reports
MaxInterval == 2
MaxHeight == 3
Intervals == 0..MaxInterval
Heights == 0..MaxHeight

TimeoutError == "You are waiting too long time for interval"
StatusError == "status error"

WIdle ==
    /\ wPc = "idle"
    /\ wInterval = 0
    /\ wCurrent = 0
    /\ wCounter = 0
    /\ wQueries = 0
    /\ wSeen = FALSE
    /\ wFailed = FALSE
    /\ wResult = "none"

\* WaitForBlockInterval(interval) has been called and is about to make its
\* first status query
WInit ==
    /\ wPc = "first"
    /\ wInterval \in Intervals
    /\ wCurrent = 0
    /\ wCounter = 0
    /\ wQueries = 0
    /\ wSeen = FALSE
    /\ wFailed = FALSE
    /\ wResult = "none"

\* GetDaemonStatus(): RunPylonsd fails or its output does not decode (err), or
\* the node reports a block height
DaemonStatus == [err : BOOLEAN, height : Heights]

\* the loop head: for counter < 300*interval
LoopHead(counter, interval) ==
    IF counter < PollsPerBlock * interval THEN "loop" ELSE "done"

\* ds, _, err := GetDaemonStatus(); currentBlock := ...; counter := 1
FirstStatus(ds) ==
    /\ wPc = "first"
    /\ wQueries' = wQueries + 1
    /\ IF ds.err
       THEN /\ wPc' = "done"
            /\ wResult' = StatusError
            /\ wFailed' = TRUE
            /\ UNCHANGED <<wCurrent, wCounter, wSeen>>
       ELSE /\ wCurrent' = ds.height
            /\ wCounter' = 1
            /\ wSeen' = (ds.height >= ds.height + wInterval)
            /\ wFailed' = FALSE
            /\ wPc' = LoopHead(1, wInterval)
            /\ wResult' = IF LoopHead(1, wInterval) = "done"
                          THEN TimeoutError ELSE "none"
    /\ UNCHANGED <<wInterval, tvars, mvars, avars>>

\* one pass of the loop body, up to the next evaluation of the loop head
PollStatus(ds) ==
    /\ wPc = "loop"
    /\ wQueries' = wQueries + 1
    /\ IF ds.err
       THEN /\ wPc' = "done"
            /\ wResult' = StatusError
            /\ wFailed' = TRUE
            /\ UNCHANGED <<wCounter, wSeen>>
       ELSE IF ds.height >= wCurrent + wInterval
       THEN /\ wPc' = "done"
            /\ wResult' = "nil"
            /\ wSeen' = TRUE
            /\ UNCHANGED <<wCounter, wFailed>>
       ELSE /\ wCounter' = wCounter + 1
            /\ wPc' = LoopHead(wCounter + 1, wInterval)
            /\ wResult' = IF LoopHead(wCounter + 1, wInterval) = "done"
                          THEN TimeoutError ELSE "none"
            /\ UNCHANGED <<wSeen, wFailed>>
    /\ UNCHANGED <<wInterval, wCurrent, tvars, mvars, avars>>

----------------------------------------------------------------------------
(*            package inttest: RunPylonsd, concurrent invocations          *)

\* goroutines (parallel tests) calling RunPylonsd
NumProcs == 3
Procs == 1..NumProcs

MIdle ==
    /\ pc = [p \in Procs |-> "idle"]
    /\ cliMux = FALSE
    /\ lastErr = [p \in Procs |-> "none"]

\* var cliMux sync.Mutex: unlocked; no goroutine is inside RunPylonsd
MInit == MIdle

\* a goroutine calls RunPylonsd: the argument set-up, up to cliMux.Lock()
Invoke(p) ==
    /\ pc[p] = "idle"
    /\ pc' = [pc EXCEPT ![p] = "lock"]
    /\ UNCHANGED <<cliMux, lastErr, tvars, wvars, avars>>

\* cliMux.Lock(), then exec.Command: the external command is started
Lock(p) ==
    /\ pc[p] = "lock"
    /\ ~cliMux
    /\ cliMux' = TRUE
    /\ pc' = [pc EXCEPT ![p] = "cmd"]
    /\ UNCHANGED <<lastErr, tvars, wvars, avars>>

\* res, err := cmd.CombinedOutput(): the external command ends, well or not
CombinedOutput(p, err) ==
    /\ pc[p] = "cmd"
    /\ lastErr' = [lastErr EXCEPT ![p] = err]
    /\ pc' = [pc EXCEPT ![p] = "unlock"]
    /\ UNCHANGED <<cliMux, tvars, wvars, avars>>

UnlockOnSuccess(p) ==
    /\ pc[p] = "unlock"
    /\ cliMux' = IF lastErr[p] = "nil" THEN FALSE ELSE cliMux
    /\ pc' = [pc EXCEPT ![p] = "idle"]
    /\ UNCHANGED <<lastErr, tvars, wvars, avars>>

\* cliMux.Unlock(); return
Unlock(p) ==
    /\ pc[p] = "unlock"
    /\ cliMux' = FALSE
    /\ pc' = [pc EXCEPT ![p] = "idle"]
    /\ UNCHANGED <<lastErr, tvars, wvars, avars>>

CommandEnds(p) == \E err \in Errs : CombinedOutput(p, err)

----------------------------------------------------------------------------
(*            package inttest: RunPylonsd, argument rewriting              *)

\* the argument lists a caller passes, and the -node flag's value: a string
\* of pieces, "," being the separator
MaxArgs == 3
MaxNodeLen == 3
Tokens == {"keys", "tx", "query", "status", "sign", "pylons",
           "create-account", "show"}
ArgLists == UNION {[1..n -> Tokens] : n \in 0..MaxArgs}
NodeChars == {"n", ","}
NodeStrings == UNION {[1..n -> NodeChars] : n \in 0..MaxNodeLen}

AIdle ==
    /\ aStage = "input"
    /\ aOrig = <<>>
    /\ aNodes = <<>>
    /\ aArgs = <<>>
    /\ aPassed = <<>>

\* RunPylonsd(args, stdinInput) is called with CLIOpts.CustomNode = aNodes
AInit ==
    /\ aStage = "input"
    /\ aOrig \in ArgLists
    /\ aNodes \in NodeStrings
    /\ aArgs = aOrig
    /\ aPassed = <<>>

\* a run-time panic (index out of range) instead of a result
Panic == <<"panic: runtime error: index out of range">>

\* strings.Split(s, ","): the pieces between the separators, as strings
RECURSIVE Split(_)
Split(s) ==
    IF s = <<>> THEN <<"">>
    ELSE LET rest == Split(Tail(s))
         IN  IF Head(s) = ","
             THEN <<"">> \o rest
             ELSE <<Head(s) \o Head(rest)>> \o Tail(rest)

\* func NodeFlagSetup(args []string) []string; randNodeIndex is the value of
\* rand.Intn(len(customNodes))
NodeFlagSetup(args, randNodeIndex) ==
    IF Len(aNodes) > 0
    THEN IF Len(args) = 0 THEN Panic
         ELSE IF args[1] = "query" \/ args[1] = "tx" \/ args[1] = "status"
              THEN args \o <<"--node", Split(aNodes)[randNodeIndex + 1]>>
              ELSE args
    ELSE args

\* func KeyringBackendSetup(args []string) []string
KeyringBackendSetup(args) ==
    IF Len(args) = 0 THEN args
    ELSE LET newArgs == args \o <<"--keyring-backend", "test">>
         IN  CASE args[1] = "keys" -> newArgs
               [] args[1] = "tx" ->
                    IF Len(args) < 2 THEN Panic
                    ELSE IF args[2] = "sign" THEN newArgs
                    ELSE IF args[2] = "pylons"
                         THEN IF Len(args) < 3 THEN Panic
                              ELSE IF args[3] = "create-account" THEN newArgs
                              ELSE args
                    ELSE args
               [] OTHER -> args

\* func RunPylonsd: the two set-up calls and the command's arguments
RunPylonsd(randNodeIndex) ==
    /\ aStage = "input"
    /\ LET withNode == NodeFlagSetup(aOrig, randNodeIndex)
           withKeyring == IF withNode = Panic THEN Panic
                          ELSE KeyringBackendSetup(withNode)
       IN  /\ aArgs' = withKeyring
           /\ IF withKeyring = Panic
              THEN aStage' = "panic" /\ aPassed' = <<>>
              ELSE aStage' = "ran" /\ aPassed' = withKeyring
    /\ UNCHANGED <<aOrig, aNodes, tvars, wvars, mvars>>

----------------------------------------------------------------------------
(*                           Specifications                                *)

\* one call of WaitForBlockInterval against a node whose status is anything
InitWait == WInit /\ TIdle /\ MIdle /\ AIdle
NextWait ==
    \/ \E ds \in DaemonStatus : FirstStatus(ds)
    \/ \E ds \in DaemonStatus : PollStatus(ds)
SpecWait == InitWait /\ [][NextWait]_vars

\* goroutines calling RunPylonsd again and again.  sync.Mutex hands the lock
\* to a goroutine that has waited for it (starvation mode), hence strong
\* fairness of Lock; a goroutine that can run does, and the external command
\* ends, hence weak fairness of the other steps.
InitMux == MInit /\ TIdle /\ WIdle /\ AIdle
NextMux ==
    \/ \E p \in Procs : Invoke(p)
    \/ \E p \in Procs : Lock(p)
    \/ \E p \in Procs : CommandEnds(p)
    \/ \E p \in Procs : Unlock(p)
SpecMux ==
    /\ InitMux
    /\ [][NextMux]_vars
    /\ \A p \in Procs :
         SF_vars(Lock(p)) /\ WF_vars(CommandEnds(p)) /\ WF_vars(Unlock(p))

\* one call of RunPylonsd, for any arguments and any -node flag
InitArgs == AInit /\ TIdle /\ WIdle /\ MIdle
NextArgs == \E r \in 0..(Len(Split(aNodes)) - 1) : RunPylonsd(r)
SpecArgs == InitArgs /\ [][NextArgs]_vars

\* the wrapper, with contexts built by NewT, WithFields and Run only
Init == TInit /\ WIdle /\ MIdle /\ AIdle
Next ==
    \/ \E origin \in {NilHandle} \cup Handles, fresh \in Handles :
         CallNewT(origin, fresh)
    \/ \E i \in DOMAIN ctxs, fields \in FieldSets : CallWithFields(i, fields)
    \/ \E i \in DOMAIN ctxs, subt \in FreshHandles : CallRun(i, subt)
    \/ \E i \in DOMAIN ctxs, cs \in CallerStacks : CallFatal(i, cs)
    \/ \E i \in DOMAIN ctxs, cs \in CallerStacks : CallFatalf(i, cs)
    \/ \E i \in DOMAIN ctxs, cs \in CallerStacks, value \in BOOLEAN :
         CallMustTrue(i, cs, value)
    \/ \E i \in DOMAIN ctxs, cs \in CallerStacks, err \in Errs :
         CallMustNil(i, cs, err)
    \/ \E i \in DOMAIN ctxs, cs \in CallerStacks : CallLog(i, cs)
    \/ \E i \in DOMAIN ctxs, cs \in CallerStacks : CallInfo(i, cs)
    \/ \E i \in DOMAIN ctxs, cs \in CallerStacks : CallWarn(i, cs)
    \/ \E i \in DOMAIN ctxs, cs \in CallerStacks : CallTrace(i, cs)
    \/ \E i \in DOMAIN ctxs, cs \in CallerStacks : CallDebug(i, cs)
Spec == Init /\ [][Next]_vars

\* the logging methods on any T value (a struct literal of the package:
\* either backend, any threshold)
InitLevels ==
    /\ ctxs \in {<<t>> : t \in T}
    /\ ListenersInit
    /\ out = <<>>
    /\ op = NoOp
    /\ halted = FALSE
    /\ WIdle /\ MIdle /\ AIdle
NextLevels ==
    \/ \E i \in DOMAIN ctxs, cs \in CallerStacks : CallLog(i, cs)
    \/ \E i \in DOMAIN ctxs, cs \in CallerStacks : CallInfo(i, cs)
    \/ \E i \in DOMAIN ctxs, cs \in CallerStacks : CallWarn(i, cs)
    \/ \E i \in DOMAIN ctxs, cs \in CallerStacks : CallTrace(i, cs)
    \/ \E i \in DOMAIN ctxs, cs \in CallerStacks : CallDebug(i, cs)
SpecLevels == InitLevels /\ [][NextLevels]_vars

----------------------------------------------------------------------------
(*                      Properties of package evtesting                    *)

FailRegistered == "FAIL" \in listeners
Callbacks(o) == {i \in DOMAIN o : o[i].kind = "callback"}
Receiver == ctxs[op.recv]

\* C1: on every fatal-failure path (Fatal, Fatalf, MustTrue(false),
\* MustNil(non-nil)), on both backends, the registered "FAIL" callback has run
\* before any log record of the failure is emitted and before the test or the
\* process is halted.
C1_FailDispatchedFirst ==
    (op.fail /\ FailRegistered) =>
        /\ Halts(out)
        /\ out[1] = Callback("FAIL")
        /\ \A i \in DOMAIN out :
             out[i].kind \in {"record", "halt"} =>
                \E j \in 1..(i - 1) : out[j] = Callback("FAIL")

C1_Witness ==
    /\ op.name = "MustNil" /\ op.fail /\ FailRegistered
    /\ Receiver.useLogPkg
    /\ Len(out) > 2

\* C10: with a "FAIL" callback registered, each Fatal, Fatalf, MustTrue(false)
\* and MustNil(non-nil) call runs the callback exactly once on both backends,
\* and MustTrue(true) and MustNil(nil) never run it.
C10_CallbackExactlyOnce ==
    (FailRegistered /\ op.name \in {"Fatal", "Fatalf", "MustTrue", "MustNil"}) =>
        Cardinality(Callbacks(out)) = (IF op.fail THEN 1 ELSE 0)

\* C2: WithFields never changes the receiver (field set, native handle,
\* backend flag, log level), and the returned context has the receiver's
\* native handle, backend flag and log level.
C2_WithFieldsKeepsReceiver ==
    [][op'.name = "WithFields" =>
        /\ ctxs'[1] = ctxs[op'.recv]
        /\ ctxs'[op'.ret].origin = ctxs[op'.recv].origin
        /\ ctxs'[op'.ret].useLogPkg = ctxs[op'.recv].useLogPkg
        /\ ctxs'[op'.ret].logLevel = ctxs[op'.recv].logLevel]_vars

C2_Witness ==
    /\ op.name = "WithFields"
    /\ ctxs[1].fields # NoFields
    /\ ctxs[2].fields # ctxs[1].fields

\* the field set the data model describes: the parent's, overridden by the new
Merged(parent, new) ==
    [k \in (DOMAIN parent) \cup (DOMAIN new) |->
        IF k \in DOMAIN new THEN new[k] ELSE parent[k]]

\* C8 (as stated): a context derived with WithFields(newFields) has the
\* parent's field set merged with newFields, new entries winning.
C8_FieldsMerged ==
    op.name = "WithFields" => ctxs[op.ret].fields = Merged(ctxs[1].fields, op.arg)

\* C8 (amended): a context derived with WithFields(newFields) has exactly the
\* field set newFields; the parent's keys that newFields lacks are not kept.
C8_FieldsReplaced ==
    op.name = "WithFields" => ctxs[op.ret].fields = op.arg

C8_Witness ==
    /\ op.name = "WithFields"
    /\ ctxs[1].fields # NoFields
    /\ op.arg = NoFields
    /\ ctxs[2].fields = NoFields

SameBackend(a, b) == a.useLogPkg = b.useLogPkg /\ a.logLevel = b.logLevel
BackendOfNewT(t) ==
    \/ ~t.useLogPkg /\ t.logLevel = DebugLevel
    \/ t.useLogPkg /\ t.logLevel = TraceLevel

\* C9: along every chain of WithFields and Run derivations from a NewT
\* context, each derived context has the backend flag and the log level of its
\* parent, no operation changes them on an existing context, and so every
\* context is (native, debug) or (standalone, trace).
C9_BackendFixed ==
    /\ [](\A i \in DOMAIN ctxs : BackendOfNewT(ctxs[i]))
    /\ [][/\ op'.name \in {"WithFields", "Run"} =>
                /\ SameBackend(ctxs'[1], ctxs[op'.recv])
                /\ SameBackend(ctxs'[op'.ret], ctxs[op'.recv])
          /\ op'.name \notin {"WithFields", "Run", "NewT"} =>
                /\ DOMAIN ctxs' = DOMAIN ctxs
                /\ \A i \in DOMAIN ctxs : SameBackend(ctxs'[i], ctxs[i])]_vars

C9_Witness ==
    /\ op.name = "Run"
    /\ op.recv = 2
    /\ ~ctxs[2].useLogPkg
    /\ ctxs[2].fields # NoFields

\* the function a caller-location record reports
ReportedFunc(ev) ==
    IF ev.sink = "logrus"
    THEN ev.fields["func"]
    ELSE LET i == CHOOSE j \in DOMAIN ev.line : ev.line[j][1] = "func"
         IN  ev.line[i][2]
WrapperFuncs ==
    {"evtesting.(*T).Fatal", "evtesting.(*T).Fatalf", "evtesting.(*T).MustTrue",
     "evtesting.(*T).MustNil", "evtesting.(*T).Warn", "evtesting.(*T).Trace",
     "evtesting.(*T).Debug", "evtesting.(*T).printCallerLine",
     "evtesting.getFrame"}

\* C4: every caller-location record the wrapper emits reports the frame of
\* the test author's call into the wrapper, never a frame of one of the
\* wrapper's own methods, also when one wrapper method calls another.
C4_CallerIsAuthor ==
    \A i \in DOMAIN out :
        out[i].role = "caller" =>
            /\ ReportedFunc(out[i]) = op.stack[1].function
            /\ ReportedFunc(out[i]) \notin WrapperFuncs

\* the severity each logging method emits at
Severity(name) ==
    CASE name = "Log" -> InfoLevel
      [] name = "Info" -> InfoLevel
      [] name = "Warn" -> WarnLevel
      [] name = "Debug" -> DebugLevel
      [] name = "Trace" -> TraceLevel
LoggingMethods == {"Log", "Info", "Warn", "Trace", "Debug"}

----------------------------------------------------------------------------
(*                      Properties of package inttest                      *)

\* C5: WaitForBlockInterval(interval) ends after at most 300 * interval status
\* queries; it returns nil as soon as a poll reports a height >= (height of
\* the first query) + interval, the timeout error if no poll up to the cap
\* does, and the status error at once at the first status query that fails.
C5_WaitBounded ==
    /\ wQueries <= PollsPerBlock * wInterval
    /\ wPc # "done" => ~wSeen /\ ~wFailed
    /\ wPc = "done" =>
         /\ wResult = "nil" <=> (wSeen /\ ~wFailed)
         /\ wResult = TimeoutError <=> (~wSeen /\ ~wFailed)
         /\ wResult = StatusError <=> wFailed

\* the same for the intervals callers wait for (at least one block)
WaitBoundedForPositiveInterval == wInterval >= 1 => C5_WaitBounded

Running == {p \in Procs : pc[p] = "cmd"}

\* C6: under any interleaving of concurrent RunPylonsd invocations at most
\* one external command runs at a time, the lock is released after every
\* invocation whether the command succeeded or failed, and so every waiting
\* invocation eventually runs.
C6_Serialized ==
    /\ [](Cardinality(Running) <= 1)
    /\ [](cliMux <=> \E p \in Procs : pc[p] \in {"cmd", "unlock"})
    /\ \A p \in Procs : (pc[p] = "lock") ~> (pc[p] = "cmd")

C6_Witness ==
    /\ \E p \in Procs : pc[p] = "cmd"
    /\ \E p \in Procs : pc[p] = "lock"
    /\ \E p \in Procs : lastErr[p] = "exit status 1" /\ pc[p] = "idle"

\* the shapes `keys *`, `tx sign` and `tx pylons create-account`
KeyringShape(args) ==
    \/ Len(args) >= 1 /\ args[1] = "keys"
    \/ Len(args) >= 2 /\ args[1] = "tx" /\ args[2] = "sign"
    \/ /\ Len(args) >= 3
       /\ args[1] = "tx" /\ args[2] = "pylons" /\ args[3] = "create-account"
NodeCommand(args) ==
    Len(args) >= 1 /\ args[1] \in {"query", "tx", "status"}
ConfiguredNodes == {Split(aNodes)[i] : i \in DOMAIN Split(aNodes)}
ExpectedArgs ==
    {aOrig \o node \o keyring :
        node \in (IF NodeCommand(aOrig) /\ aNodes # <<>>
                  THEN {<<"--node", e>> : e \in ConfiguredNodes}
                  ELSE {<<>>}),
        keyring \in (IF KeyringShape(aOrig)
                     THEN {<<"--keyring-backend", "test">>}
                     ELSE {<<>>})}

\* C7: for every argument list and every configured node list RunPylonsd
\* passes the command the original arguments, then one `--node <entry>` pair
\* iff the first argument is query, tx or status and the list is not empty,
\* then `--keyring-backend test` iff the arguments have one of the shapes.
C7_ArgsRewritten ==
    aStage # "input" => (aStage = "ran" /\ aPassed \in ExpectedArgs)

\* the same for the calls that reach the command
RanArgsRewritten == aStage = "ran" => aPassed \in ExpectedArgs

====
